---- MODULE Spec2Model ----
(***************************************************************************)
(* Model of app.py, the Consulting Project Evaluator: two Postgres tables  *)
(* (public.consultants, public.projects), the helper functions that read   *)
(* and write them, and the Streamlit pages that call the helpers.          *)
(*                                                                         *)
(* A table is the set of its rows.  A Python dict (an assignment) is a     *)
(* function from role names to head counts.  Money and durations are       *)
(* integers, all of them values that the REAL and INTEGER columns hold     *)
(* exactly; a cost is carried as its numerator over WorkingDays, so that   *)
(* annual_salary / 220 is exact.  No helper has a raise statement, and the *)
(* database is taken to be reachable, so no call raises.                   *)
(***************************************************************************)
EXTENDS Integers, FiniteSets, Sequences, TLC

VARIABLES
    tables,       \* TRUE once CREATE TABLE IF NOT EXISTS has run (init_db)
    consultants,  \* rows of public.consultants
    projects,     \* rows of public.projects
    nextId,       \* next value of the SERIAL sequence of projects.id
    call,         \* the last helper call that executed SQL, and its outcome
    sess          \* per browser session: the script run and what is on screen

vars == <<tables, consultants, projects, nextId, call, sess>>

(***************************************************************************)
(* Bounds and input sets                                                   *)
(***************************************************************************)
MaxId == 2

Sessions == {1, 2}

\* divisor of annual_salary in calculate_costs
WorkingDays == 220

\* defaults of init_db
defaults ==
    { [role |-> "Strategy Consultant",        annual_salary |-> 27000, fixed_cost |-> 500],
      [role |-> "Senior Strategy Consultant", annual_salary |-> 40000, fixed_cost |-> 1000],
      [role |-> "IT Consultant",              annual_salary |-> 24000, fixed_cost |-> 500],
      [role |-> "Senior IT Consultant",       annual_salary |-> 37000, fixed_cost |-> 1000] }

\* roles, salaries and fixed costs the helpers are called with
RoleArgs == {"", "IT Consultant", "Ghost Role"}
RateArgs == { <<30000, 750>>, <<24000, 0>> }

NoAssign == [r \in {} |-> 0]

\* assignments the helpers are called with: a default role, an unknown role
\* next to a known one, and zero and negative head counts
A1 == [r \in {"Strategy Consultant"} |-> 2]
A2 == [r \in {"Ghost Role", "IT Consultant"} |-> IF r = "Ghost Role" THEN 5 ELSE 1]
A3 == [r \in {"IT Consultant", "Senior IT Consultant"} |-> IF r = "IT Consultant" THEN -1 ELSE 0]
AssignArgs == {A1, A2, A3, NoAssign}

\* (name, duration, sales_price, assignments) the project helpers are called with
ProjArgs ==
    { <<"P", 30, 10000, A1>>,
      <<"Q", 10, 0,     A2>>,
      <<"P", 0,  10000, A2>>,
      <<"Q", 30, -1,    A1>> }

IdArgs == 1 .. (MaxId + 1)

DurationArgs == {1, 30}

(***************************************************************************)
(* Pure helpers                                                            *)
(***************************************************************************)
Roles(table) == { c.role : c \in table }

HasRow(rows, id) == \E p \in rows : p.id = id

\* json.dumps that leaves out the roles with no head count
json_dumps_positive(assignments) ==
    { <<r, assignments[r]>> : r \in { x \in DOMAIN assignments : assignments[x] > 0 } }

\* json.dumps of a dict with string keys: the text holds one key/value
\* member per key
json_dumps(assignments) == { <<r, assignments[r]>> : r \in DOMAIN assignments }

\* json.loads of that text
json_loads(txt) ==
    [ r \in { m[1] : m \in txt } |-> (CHOOSE m \in txt : m[1] = r)[2] ]

\* init_db with ON CONFLICT (role) DO UPDATE: every default is written again
init_db_do_update(table) ==
    { c \in table : \A d \in defaults : d.role # c.role } \cup defaults

\* init_db: INSERT ... ON CONFLICT (role) DO NOTHING for each default
init_db(table) ==
    table \cup { d \in defaults : d.role \notin Roles(table) }

\* add_consultant as an INSERT into a table without the key on role
add_consultant_insert(table, role, annual_salary, fixed_cost) ==
    table \cup { [role |-> role, annual_salary |-> annual_salary, fixed_cost |-> fixed_cost] }

\* add_consultant: INSERT ... ON CONFLICT (role) DO UPDATE SET ...
add_consultant(table, role, annual_salary, fixed_cost) ==
    { c \in table : c.role # role }
        \cup { [role |-> role, annual_salary |-> annual_salary, fixed_cost |-> fixed_cost] }

\* delete_consultant: DELETE ... WHERE role=:role
delete_consultant(table, role) == { c \in table : c.role # role }

\* save_project: INSERT with the next value of the id sequence
save_project(rows, id, name, duration, sales_price, assignments) ==
    rows \cup { [id |-> id, name |-> name, duration |-> duration,
                 sales_price |-> sales_price,
                 consultants_json |-> json_dumps(assignments)] }

\* update_project whose SET list leaves out consultants_json
update_project_no_json(rows, project_id, name, duration, sales_price, assignments) ==
    { IF p.id = project_id
        THEN [id |-> p.id, name |-> name, duration |-> duration,
              sales_price |-> sales_price,
              consultants_json |-> p.consultants_json]
        ELSE p : p \in rows }

\* update_project: UPDATE ... SET all four columns WHERE id=:id
update_project(rows, project_id, name, duration, sales_price, assignments) ==
    { IF p.id = project_id
        THEN [id |-> p.id, name |-> name, duration |-> duration,
              sales_price |-> sales_price,
              consultants_json |-> json_dumps(assignments)]
        ELSE p : p \in rows }

\* delete_project with WHERE id<=:id
delete_project_upto(rows, project_id) == { p \in rows : p.id > project_id }

\* delete_project: DELETE ... WHERE id=:id
delete_project(rows, project_id) == { p \in rows : p.id # project_id }

\* the loop body of calculate_costs with "if count != 0"
role_cost_nonzero(table, duration, role, count) ==
    IF count # 0
      THEN LET filtered == { c \in table : c.role = role }
           IN  IF filtered # {}
                 THEN LET row == CHOOSE c \in filtered : TRUE
                      IN  row.annual_salary * duration * count
                            + row.fixed_cost * count * WorkingDays
                 ELSE 0
      ELSE 0

\* one pass of the loop body of calculate_costs, times WorkingDays
role_cost(table, duration, role, count) ==
    IF count > 0
      THEN LET filtered == { c \in table : c.role = role }
           IN  IF filtered # {}
                 THEN LET row == CHOOSE c \in filtered : TRUE
                      IN  row.annual_salary * duration * count
                            + row.fixed_cost * count * WorkingDays
                 ELSE 0
      ELSE 0

RECURSIVE costs_loop(_, _, _, _)
costs_loop(table, duration, assignments, todo) ==
    IF todo = {} THEN 0
    ELSE LET role == CHOOSE r \in todo : TRUE
         IN  role_cost(table, duration, role, assignments[role])
               + costs_loop(table, duration, assignments, todo \ {role})

\* calculate_costs, times WorkingDays
calculate_costs(table, duration, assignments) ==
    costs_loop(table, duration, assignments, DOMAIN assignments)

(***************************************************************************)
(* The record of a helper call                                             *)
(***************************************************************************)
NoCall ==
    [ op |-> "none", sid |-> 0, id |-> 0, role |-> "", name |-> "",
      duration |-> 0, sales_price |-> 0, assignments |-> NoAssign,
      annual_salary |-> 0, fixed_cost |-> 0, rowcount |-> 0,
      raised |-> "none", result |-> 0 ]

\* a click, and a session before its first script run
NoEv ==
    [ kind |-> "none", page |-> "", id |-> 0, name |-> "", touched |-> FALSE,
      role |-> "", annual_salary |-> 0, fixed_cost |-> 0 ]

Fresh ==
    [ pc |-> "idle", page |-> "", ev |-> NoEv, project_name |-> "",
      save_button |-> FALSE, ids |-> {}, roles |-> {}, todo |-> NoCall ]

(***************************************************************************)
(* Helper calls                                                            *)
(***************************************************************************)
Init ==
    /\ tables = FALSE
    /\ consultants = {}
    /\ projects = {}
    /\ nextId = 1
    /\ call = NoCall
    /\ sess = [ s \in Sessions |-> Fresh ]

\* line 47: init_db() runs whenever the script runs
InitDb ==
    /\ tables' = TRUE
    /\ consultants' = init_db(consultants)
    /\ call' = [NoCall EXCEPT !.op = "init_db",
                              !.rowcount = Cardinality(init_db(consultants) \ consultants)]
    /\ UNCHANGED <<projects, nextId, sess>>

AddConsultant ==
    /\ tables
    /\ \E role \in RoleArgs, rate \in RateArgs :
         /\ consultants' = add_consultant(consultants, role, rate[1], rate[2])
         /\ call' = [NoCall EXCEPT !.op = "add_consultant", !.role = role,
                                   !.annual_salary = rate[1], !.fixed_cost = rate[2],
                                   !.rowcount = 1]
    /\ UNCHANGED <<tables, projects, nextId, sess>>

DeleteConsultant ==
    /\ tables
    /\ \E role \in RoleArgs :
         /\ consultants' = delete_consultant(consultants, role)
         /\ call' = [NoCall EXCEPT !.op = "delete_consultant", !.role = role,
                                   !.rowcount = Cardinality({ c \in consultants : c.role = role })]
    /\ UNCHANGED <<tables, projects, nextId, sess>>

CalculateCosts ==
    /\ tables
    /\ \E duration \in DurationArgs, assignments \in AssignArgs :
         call' = [NoCall EXCEPT !.op = "calculate_costs", !.duration = duration,
                                !.assignments = assignments,
                                !.result = calculate_costs(consultants, duration, assignments)]
    /\ UNCHANGED <<tables, consultants, projects, nextId, sess>>

SaveProject ==
    /\ tables
    /\ nextId <= MaxId
    /\ \E a \in ProjArgs :
         /\ projects' = save_project(projects, nextId, a[1], a[2], a[3], a[4])
         /\ call' = [NoCall EXCEPT !.op = "save_project", !.id = nextId, !.name = a[1],
                                   !.duration = a[2], !.sales_price = a[3],
                                   !.assignments = a[4], !.rowcount = 1]
    /\ nextId' = nextId + 1
    /\ UNCHANGED <<tables, consultants, sess>>

UpdateProject ==
    /\ tables
    /\ \E id \in IdArgs, a \in ProjArgs :
         /\ projects' = update_project(projects, id, a[1], a[2], a[3], a[4])
         /\ call' = [NoCall EXCEPT !.op = "update_project", !.id = id, !.name = a[1],
                                   !.duration = a[2], !.sales_price = a[3],
                                   !.assignments = a[4],
                                   !.rowcount = Cardinality({ p \in projects : p.id = id })]
    /\ UNCHANGED <<tables, consultants, nextId, sess>>

DeleteProject ==
    /\ tables
    /\ \E id \in IdArgs :
         /\ projects' = delete_project(projects, id)
         /\ call' = [NoCall EXCEPT !.op = "delete_project", !.id = id,
                                   !.rowcount = Cardinality({ p \in projects : p.id = id })]
    /\ UNCHANGED <<tables, consultants, nextId, sess>>

Next ==
    \/ InitDb
    \/ AddConsultant
    \/ DeleteConsultant
    \/ CalculateCosts
    \/ SaveProject
    \/ UpdateProject
    \/ DeleteProject

Spec == Init /\ [][Next]_vars

(***************************************************************************)
(* The Streamlit pages (lines 161-337), for sessions that are logged in.   *)
(* Every click re-runs the script from the top: init_db (line 47), then    *)
(* the page that the sidebar selects.  A session is                        *)
(*   pc            "idle" (page on screen), "run" (script about to run for *)
(*                 ev), "write" (at the helper call todo)                  *)
(*   page          the page on screen ("" before the first run)            *)
(*   ev            the click this run is for                               *)
(*   project_name  the New Project form's name field                       *)
(*   save_button   whether Save Project is on screen                       *)
(*   ids           the projects whose expander is on screen                *)
(*   roles         the roles whose number inputs / options are on screen   *)
(*   todo          the helper call the run has reached                     *)
(***************************************************************************)
Pages == {"New Project", "Saved Projects", "Manage Consultants"}

\* what the user types
NewNames == {"", "N"}
\* (Edit Name, whether the head counts on screen are set to 2)
EditArgs == { <<"U", TRUE>>, <<"V", FALSE>> }
\* (Role Name, Annual Salary, Fixed Cost)
RoleFormArgs == { <<"", 30000, 750>>, <<"Ghost Role", 30000, 750>>, <<"Ghost Role", 24000, 0>> }
SelectRoles == {"Ghost Role"}

\* dict.get(key, 0)
Get(assignments, role) ==
    IF role \in DOMAIN assignments THEN assignments[role] ELSE 0

\* the row the Saved Projects loop is at
RowOf(rows, id) == CHOOSE p \in rows : p.id = id

\* the project the UI runs start from: stored while Ghost Role was a role
SeedCall ==
    [NoCall EXCEPT !.op = "save_project", !.id = 1, !.name = "Q", !.duration = 10,
                   !.sales_price = 0, !.assignments = A2, !.rowcount = 1]

InitUI ==
    /\ tables = TRUE
    /\ consultants = defaults
    /\ projects = save_project({}, 1, "Q", 10, 0, A2)
    /\ nextId = 2
    /\ call = SeedCall
    /\ sess = [ s \in Sessions |-> Fresh ]

Click(s, ev) ==
    /\ sess' = [sess EXCEPT ![s].pc = "run", ![s].ev = ev]
    /\ UNCHANGED <<tables, consultants, projects, nextId, call>>

\* line 163: the sidebar radio
Navigate(s) ==
    /\ sess[s].pc = "idle"
    /\ \E page \in Pages :
         Click(s, [NoEv EXCEPT !.kind = "load", !.page = page])

\* line 182: the Calculate button of project_form
SubmitCalculate(s) ==
    /\ sess[s].pc = "idle"
    /\ sess[s].page = "New Project"
    /\ \E name \in NewNames :
         Click(s, [NoEv EXCEPT !.kind = "calculate", !.page = "New Project",
                               !.name = name, !.touched = TRUE])

\* line 197: the Save Project button, when it is on screen
ClickSaveProject(s) ==
    /\ sess[s].pc = "idle"
    /\ sess[s].page = "New Project"
    /\ sess[s].save_button
    /\ Click(s, [NoEv EXCEPT !.kind = "save", !.page = "New Project",
                             !.name = sess[s].project_name, !.touched = TRUE])

\* line 241: the Update button of an edit form on screen
SubmitUpdate(s) ==
    /\ sess[s].pc = "idle"
    /\ sess[s].page = "Saved Projects"
    /\ \E id \in sess[s].ids, a \in EditArgs :
         Click(s, [NoEv EXCEPT !.kind = "update", !.page = "Saved Projects",
                               !.id = id, !.name = a[1], !.touched = a[2]])

\* line 248: the Delete button of a project on screen
ClickDelete(s) ==
    /\ sess[s].pc = "idle"
    /\ sess[s].page = "Saved Projects"
    /\ \E id \in sess[s].ids :
         Click(s, [NoEv EXCEPT !.kind = "delete", !.page = "Saved Projects", !.id = id])

\* line 321: the Add/Update button of consultant_form
SubmitRole(s) ==
    /\ sess[s].pc = "idle"
    /\ sess[s].page = "Manage Consultants"
    /\ \E a \in RoleFormArgs :
         Click(s, [NoEv EXCEPT !.kind = "add_role", !.page = "Manage Consultants",
                               !.role = a[1], !.annual_salary = a[2],
                               !.fixed_cost = a[3]])

\* line 332: the Delete Role button, with a role of the select box
ClickDeleteRole(s) ==
    /\ sess[s].pc = "idle"
    /\ sess[s].page = "Manage Consultants"
    /\ \E role \in sess[s].roles \cap SelectRoles :
         Click(s, [NoEv EXCEPT !.kind = "delete_role", !.page = "Manage Consultants",
                               !.role = role])

\* lines 170-202: the helper call a run of the New Project page reaches.
\* The Save Project button is created only inside "if submit:".
NewProjectTodo(s, table) ==
    LET ev == sess[s].ev
        submit == ev.kind = "calculate"
        project_name == IF submit THEN ev.name ELSE sess[s].project_name
        assignments == [ r \in Roles(table) |->
                           IF ev.touched /\ r \in sess[s].roles THEN 2 ELSE 0 ]
        save_clicked == submit /\ ev.kind = "save"
    IN  IF save_clicked /\ project_name # ""
          THEN [NoCall EXCEPT !.op = "save_project", !.sid = s, !.name = project_name,
                              !.duration = 30, !.sales_price = 10000,
                              !.assignments = assignments]
          ELSE NoCall

\* lines 206-251: the helper call a run of the Saved Projects page reaches
SavedProjectsTodo(s, table, rows) ==
    LET ev == sess[s].ev
    IN  IF ev.kind \in {"update", "delete"} /\ HasRow(rows, ev.id)
          THEN LET row == RowOf(rows, ev.id)
                   assignments == json_loads(row.consultants_json)
                   new_assign == [ r \in Roles(table) |->
                                     IF ev.touched /\ r \in sess[s].roles
                                       THEN 2 ELSE Get(assignments, r) ]
               IN  IF ev.kind = "update"
                     THEN [NoCall EXCEPT !.op = "update_project", !.sid = s,
                                         !.id = row.id, !.name = ev.name,
                                         !.duration = row.duration,
                                         !.sales_price = row.sales_price,
                                         !.assignments = new_assign]
                     ELSE [NoCall EXCEPT !.op = "delete_project", !.sid = s,
                                         !.id = row.id]
          ELSE NoCall

\* lines 306-335: the helper call a run of the Manage Consultants page
\* reaches; role_to_delete is the selected option, or another option when
\* the selected role is no longer one
ManageConsultantsTodo(s, table, option) ==
    LET ev == sess[s].ev
    IN  IF ev.kind = "add_role" /\ ev.role # ""
          THEN [NoCall EXCEPT !.op = "add_consultant", !.sid = s, !.role = ev.role,
                              !.annual_salary = ev.annual_salary,
                              !.fixed_cost = ev.fixed_cost]
        ELSE IF ev.kind = "delete_role" /\ table # {}
          THEN [NoCall EXCEPT !.op = "delete_consultant", !.sid = s,
                              !.role = option]
        ELSE NoCall

\* line 331: what the select box can return in this run
SelectOptions(s, table) ==
    IF sess[s].ev.kind = "delete_role" /\ sess[s].ev.role \notin Roles(table)
      THEN Roles(table) ELSE {sess[s].ev.role}

\* one run of the script up to its helper call: init_db, then the page
RunScript(s) ==
    /\ sess[s].pc = "run"
    /\ LET table == init_db(consultants)
           page == sess[s].ev.page
       IN  /\ tables' = TRUE
           /\ consultants' = table
           /\ call' = [NoCall EXCEPT !.op = "init_db",
                                     !.rowcount = Cardinality(table \ consultants)]
           /\ \E option \in SelectOptions(s, table) :
                LET todo == CASE page = "New Project" -> NewProjectTodo(s, table)
                              [] page = "Saved Projects" -> SavedProjectsTodo(s, table, projects)
                              [] OTHER -> ManageConsultantsTodo(s, table, option)
                IN  sess' = [sess EXCEPT
                        ![s].pc = IF todo.op = "none" THEN "idle" ELSE "write",
                        ![s].page = page,
                        ![s].ev = IF todo.op = "none" THEN NoEv ELSE @,
                        ![s].project_name =
                            IF page # "New Project" THEN ""
                            ELSE IF sess[s].ev.kind = "calculate" THEN sess[s].ev.name
                            ELSE @,
                        ![s].save_button =
                            page = "New Project" /\ sess[s].ev.kind = "calculate",
                        ![s].ids =
                            IF page = "Saved Projects"
                              THEN { p.id : p \in projects } ELSE {},
                        ![s].roles =
                            IF page = "Saved Projects" /\ projects = {}
                              THEN {} ELSE Roles(table),
                        ![s].todo = todo ]
    /\ UNCHANGED <<projects, nextId>>

\* the helper call of the run, and st.rerun() after it (lines 244, 251, 327,
\* 335; none after save_project)
RunHelper(s) ==
    /\ sess[s].pc = "write"
    /\ LET todo == sess[s].todo
       IN  /\ projects' =
                CASE todo.op = "save_project" ->
                       save_project(projects, nextId, todo.name, todo.duration,
                                    todo.sales_price, todo.assignments)
                  [] todo.op = "update_project" ->
                       update_project(projects, todo.id, todo.name, todo.duration,
                                      todo.sales_price, todo.assignments)
                  [] todo.op = "delete_project" -> delete_project(projects, todo.id)
                  [] OTHER -> projects
           /\ consultants' =
                CASE todo.op = "add_consultant" ->
                       add_consultant(consultants, todo.role, todo.annual_salary,
                                      todo.fixed_cost)
                  [] todo.op = "delete_consultant" ->
                       delete_consultant(consultants, todo.role)
                  [] OTHER -> consultants
           /\ nextId' = IF todo.op = "save_project" THEN nextId + 1 ELSE nextId
           /\ call' =
                [todo EXCEPT
                   !.id = IF todo.op = "save_project" THEN nextId ELSE @,
                   !.rowcount =
                       CASE todo.op \in {"update_project", "delete_project"} ->
                              Cardinality({ p \in projects : p.id = todo.id })
                         [] todo.op = "delete_consultant" ->
                              Cardinality({ c \in consultants : c.role = todo.role })
                         [] OTHER -> 1 ]
           /\ sess' = [sess EXCEPT
                   ![s].pc = IF todo.op = "save_project" THEN "idle" ELSE "run",
                   ![s].ev = IF todo.op = "save_project"
                               THEN NoEv
                               ELSE [NoEv EXCEPT !.kind = "rerun", !.page = sess[s].page],
                   ![s].todo = NoCall ]
    /\ UNCHANGED tables

NextUI ==
    \E s \in Sessions :
        \/ Navigate(s)
        \/ SubmitCalculate(s)
        \/ ClickSaveProject(s)
        \/ SubmitUpdate(s)
        \/ ClickDelete(s)
        \/ SubmitRole(s)
        \/ ClickDeleteRole(s)
        \/ RunScript(s)
        \/ RunHelper(s)

SpecUI == InitUI /\ [][NextUI]_vars

(***************************************************************************)
(* Properties of the helper calls                                          *)
(***************************************************************************)
RateOf(table, role) == CHOOSE c \in table : c.role = role

\* C1: update_project with an id that matches no stored project fails with
\* NotFoundError and leaves the project store unchanged.
C1_UpdateMissingIdNotFound ==
    [][ (call'.op = "update_project" /\ ~HasRow(projects, call'.id))
          => (call'.raised = "NotFoundError" /\ projects' = projects) ]_vars

\* C2: a mutating helper given invalid input (add_consultant with an empty
\* role, save_project with duration < 1 or sales_price < 0) fails with
\* ValidationError and writes nothing to either table.
C2_InvalidInputRejected ==
    [][ ( \/ (call'.op = "add_consultant" /\ call'.role = "")
          \/ (call'.op = "save_project"
                /\ (call'.duration < 1 \/ call'.sales_price < 0)) )
          => ( /\ call'.raised = "ValidationError"
               /\ consultants' = consultants
               /\ projects' = projects ) ]_vars

\* C3: the rate table never holds two rows of one role, and after
\* add_consultant(role, s, f) the one row of that role carries s and f while
\* the rows of every other role are as they were.
C3_OneRowPerRoleLatestValues ==
    [][ /\ \A c1, c2 \in consultants' : c1.role = c2.role => c1 = c2
        /\ call'.op = "add_consultant"
             => /\ { c \in consultants' : c.role = call'.role }
                     = { [role |-> call'.role,
                          annual_salary |-> call'.annual_salary,
                          fixed_cost |-> call'.fixed_cost] }
                /\ { c \in consultants' : c.role # call'.role }
                     = { c \in consultants : c.role # call'.role } ]_vars

\* a default role was given other values, more roles exist, and
\* add_consultant was the last call
C3_Witness ==
    /\ call.op = "add_consultant"
    /\ call.role = "IT Consultant"
    /\ [role |-> "IT Consultant", annual_salary |-> 30000, fixed_cost |-> 750] \in consultants
    /\ Cardinality(consultants) = 6

\* C4: init_db is idempotent: on an empty table it leaves exactly the four
\* default rows, run right after itself it changes nothing, and it never
\* changes or removes a row that is there (a default role whose salary or
\* fixed cost was changed keeps the changed values).
C4_InitIdempotentNoReset ==
    [][ call'.op = "init_db"
          => /\ consultants \subseteq consultants'
             /\ consultants = {} => (consultants' = defaults /\ Cardinality(consultants') = 4)
             /\ call.op = "init_db" => consultants' = consultants
             /\ init_db(consultants') = consultants' ]_vars

\* init_db ran on a table whose IT Consultant row had been changed
C4_Witness ==
    /\ call.op = "init_db"
    /\ \E c \in consultants :
         c.role = "IT Consultant" /\ c.annual_salary = 30000 /\ c.fixed_cost = 750

\* C5: init_db seeds only an empty table: on a non-empty table it adds no
\* row, so the set of roles is the same before and after it.
C5_InitSeedsOnlyEmptyTable ==
    [][ (call'.op = "init_db" /\ consultants # {})
          => Roles(consultants') = Roles(consultants) ]_vars

\* the entries of an assignment that are charged
Charged(table, assignments) ==
    { r \in DOMAIN assignments : assignments[r] > 0 /\ r \in Roles(table) }

RECURSIVE SumCharged(_, _, _, _)
SumCharged(table, duration, assignments, S) ==
    IF S = {} THEN 0
    ELSE LET r == CHOOSE x \in S : TRUE
             c == assignments[r]
         IN  RateOf(table, r).annual_salary * duration * c
               + WorkingDays * RateOf(table, r).fixed_cost * c
               + SumCharged(table, duration, assignments, S \ {r})

Restrict(f, S) == [ x \in S |-> f[x] ]

\* C6: calculate_costs is the sum over the entries with count > 0 whose role
\* is in the rate table of (annual_salary/220)*duration*count +
\* fixed_cost*count (here times 220); the other entries contribute 0 and
\* raise nothing, and the call leaves both tables unchanged.
C6_CostIsSumOverChargedEntries ==
    [][ call'.op = "calculate_costs"
          => LET a == call'.assignments
                 d == call'.duration
             IN  /\ call'.result
                      = SumCharged(consultants, d, a, Charged(consultants, a))
                 /\ call'.result
                      = calculate_costs(consultants, d, Restrict(a, Charged(consultants, a)))
                 /\ call'.raised = "none"
                 /\ consultants' = consultants
                 /\ projects' = projects ]_vars

\* a cost was computed for an assignment with a role that is not in the rate
\* table (Ghost Role: 5) next to one that is
C6_Witness ==
    /\ call.op = "calculate_costs"
    /\ call.assignments = A2
    /\ "Ghost Role" \notin Roles(consultants)
    /\ "IT Consultant" \in Roles(consultants)
    /\ call.result > 0

\* C7: delete_project with an id that matches no stored project raises
\* nothing and leaves the project rows as they are; with the id of a stored
\* project it removes that row and no other.
C7_DeleteProjectFrame ==
    [][ call'.op = "delete_project"
          => /\ call'.raised = "none"
             /\ ~HasRow(projects, call'.id)
                  => (projects' = projects
                        /\ Cardinality(projects') = Cardinality(projects))
             /\ HasRow(projects, call'.id)
                  => (projects' = { p \in projects : p.id # call'.id }
                        /\ Cardinality(projects') = Cardinality(projects) - 1) ]_vars

\* delete_project was called with an id no stored project has, while
\* projects are stored
C7_Witness ==
    /\ call.op = "delete_project"
    /\ call.rowcount = 0
    /\ projects # {}

(***************************************************************************)
(* Properties of the pages                                                 *)
(***************************************************************************)
\* the run of session s ends in this step
RunEnds(s) == sess[s].pc \in {"run", "write"} /\ sess'[s].pc = "idle"

\* session s executes the helper call of its run in this step
Executes(s, op) ==
    sess[s].pc = "write" /\ sess[s].todo.op = op /\ sess'[s].pc # "write"

ProjectRow(c) ==
    [ id |-> c.id, name |-> c.name, duration |-> c.duration,
      sales_price |-> c.sales_price, consultants_json |-> json_dumps(c.assignments) ]

RateRow(c) ==
    [ role |-> c.role, annual_salary |-> c.annual_salary, fixed_cost |-> c.fixed_cost ]

\* C8: on the New Project page, the run that a click on Save Project starts,
\* with a non-empty project name, stores exactly one new project row with
\* the name, duration, sales price and head counts of the form.
C8_SaveClickStoresProject ==
    [][ \A s \in Sessions :
          (sess[s].ev.kind = "save" /\ sess[s].ev.name # "" /\ RunEnds(s))
            => /\ Cardinality(projects' \ projects) = 1
               /\ \E p \in projects' \ projects :
                    /\ p.name = sess[s].ev.name
                    /\ p.duration = 30
                    /\ p.sales_price = 10000
                    /\ \A r \in DOMAIN json_loads(p.consultants_json) :
                         json_loads(p.consultants_json)[r] \in {0, 2} ]_vars

\* C9: when sessions write the same project or the same role in any order,
\* no write raises or is refused, and after each write the stored row equals
\* the arguments of that write in every field, also when the other session
\* wrote between the rendering of the form and the write.
C9_LastWriteWins ==
    [][ \A s \in Sessions :
          LET t == sess[s].todo
          IN  /\ Executes(s, "update_project")
                   => /\ call'.raised = "none"
                      /\ HasRow(projects, t.id)
                           => { p \in projects' : p.id = t.id } = { ProjectRow(t) }
              /\ Executes(s, "add_consultant")
                   => /\ call'.raised = "none"
                      /\ { c \in consultants' : c.role = t.role } = { RateRow(t) } ]_vars

\* session 1 has just updated a project that session 2, whose form was
\* rendered before that write, is about to update with other values
C9_Witness ==
    /\ call.op = "update_project"
    /\ call.sid = 1
    /\ ProjectRow(call) \in projects
    /\ sess[2].pc = "write"
    /\ sess[2].todo.op = "update_project"
    /\ sess[2].todo.id = call.id
    /\ sess[2].todo.name # call.name
    /\ sess[2].todo.assignments # call.assignments

\* C10: after an Update from the edit form, the keys of the stored
\* assignment are the roles read from the rate table by the run that
\* rendered the form and took the submit: a head count of a role that is no
\* longer in the rate table is dropped, and every role of the table is a
\* key, also with count 0.
C10_UpdateKeysAreRenderedRoles ==
    [][ \A s \in Sessions :
          Executes(s, "update_project")
            => \A p \in projects' :
                 p.id = sess[s].todo.id
                   => DOMAIN json_loads(p.consultants_json) = sess[s].roles ]_vars

\* a session updated the project that held Ghost Role: 5; Ghost Role, which
\* is not in the rate table, is no key any more and a role with count 0 is
C10_Witness ==
    /\ call.op = "update_project"
    /\ call.sid \in Sessions
    /\ "Ghost Role" \notin Roles(consultants)
    /\ \E p \in projects :
         /\ p.id = call.id
         /\ "Ghost Role" \notin DOMAIN json_loads(p.consultants_json)
         /\ <<"Senior IT Consultant", 0>> \in p.consultants_json

====
